---- MODULE Spec2Model ----
(***************************************************************************)
(* Model of the two diagnostics of the repository:                         *)
(*   esmvaltool/diag_scripts/primavera/jet_latitude.py   (JetLatitude)     *)
(*   esmvaltool/diag_scripts/hydrology/derive_evspsblpot.py (debruin_pet)  *)
(*                                                                         *)
(* Numbers.  A floating-point value is a fixed-point integer counting      *)
(* units of 1/Resolution, so the integer v stands for v / Resolution.  A   *)
(* division rounds to that resolution, as floating point rounds to its     *)
(* own.  An array of integer dtype (the result of np.argmax) holds whole   *)
(* numbers only: a store into it truncates toward zero.  Latitudes and     *)
(* histogram bin edges count quarter degrees, so that the bin width 2.5    *)
(* and the offset 1.25 of the code are the integers 10 and 5.              *)
(***************************************************************************)
EXTENDS Integers, Sequences, FiniteSets, TLC

VARIABLES
    pc,              \* position of the running call
    i,               \* index into Aliases of the alias the for loop is at
    started,         \* alias indices whose iteration of the loop has begun
    failed,          \* alias indices whose iteration raised
    failedAt,        \* the stage that raised, "" while nothing has
    lanczos_weight,  \* the kernel loaded by np.load
    ua,              \* the loaded cube
    ua_filtered,     \* result of np.apply_along_axis(np.convolve ...)
    wind,            \* ua.collapsed('latitude', MAX)
    latitude,        \* wind.copy(np.argmax(...))
    data,            \* the cube _compute_histogram was called with
    entry,           \* values data held when _compute_histogram was entered
    clim,            \* day-of-year climatology
    k,               \* position of the slices_over('day_of_year') loop
    anom,            \* the local array `anom` of lines 79-83
    anom_cube,       \* the cube data.copy(anom) of line 84
    season_clim,     \* clim.aggregated_by('season', MEAN)
    samples,         \* what np.histogram and gaussian_kde were handed
    written,         \* figures plt.savefig has written
    fn_pc,           \* position of a function applied alone
    fft_in,          \* harmonic smoothing applied alone: input length
    fft_out,         \*   and the length of what irfft returned
    h_samples,       \* histogram applied alone: the samples,
    h_lat,           \*   the latitude range the bins are built from,
    h_hist,          \*   the counts of np.histogram,
    h_bars,          \*   the bar heights of plt.bar
    psl, rsds, rsdt, tas,   \* the four input fields of debruin_pet
    pet_in,          \* the four fields as they were on entry
    pet,             \* the cube debruin_pet returns
    pet_pc           \* position inside debruin_pet

pipeVars == <<pc, i, started, failed, failedAt, lanczos_weight, ua, ua_filtered,
              wind, latitude, data, entry, clim, k, anom, anom_cube,
              season_clim, samples, written>>
fftVars == <<fn_pc, fft_in, fft_out>>
histVars == <<h_samples, h_lat, h_hist, h_bars>>
petVars == <<psl, rsds, rsdt, tas, pet_in, pet, pet_pc>>
vars == <<pipeVars, fftVars, histVars, petVars>>

(***************************************************************************)
(* Bounds of the model.                                                    *)
(***************************************************************************)
MaxTime == 3        \* longest time axis of an input series
MaxKernel == 3      \* longest Lanczos kernel
Resolution == 2     \* fixed-point units per whole unit
MaxDays == 366      \* longest day-of-year climatology smoothed alone
MaxSamples == 3     \* largest sample set binned alone

None == "none"

Aliases == <<"a1", "a2">>

\* Latitude coordinate of the input grid, in degrees north.
LatPoints == <<40, 50>>

\* day_of_year values the time samples of the inputs fall on.
Days == {15, 46, 200}

(***************************************************************************)
(* Sequence helpers.                                                       *)
(***************************************************************************)
RECURSIVE SeqSum(_)
SeqSum(s) == IF s = <<>> THEN 0 ELSE Head(s) + SeqSum(Tail(s))

RECURSIVE SelectIdx(_, _, _)
\* The indices t in lo..Len(s), ascending, for which s[t] = v.
SelectIdx(s, v, lo) ==
    IF lo > Len(s) THEN <<>>
    ELSE IF s[lo] = v THEN <<lo>> \o SelectIdx(s, v, lo + 1)
    ELSE SelectIdx(s, v, lo + 1)

RECURSIVE Distinct(_, _)
\* The distinct elements of s in order of first appearance, after `seen`.
Distinct(s, seen) ==
    IF s = <<>> THEN <<>>
    ELSE IF Head(s) \in seen THEN Distinct(Tail(s), seen)
    ELSE <<Head(s)>> \o Distinct(Tail(s), seen \cup {Head(s)})

Fix(n) == n * Resolution

NLat == Len(LatPoints)

(***************************************************************************)
(* Inputs.  A cube is a record: vals (the data array along time, a row of  *)
(* NLat values per time for the wind field), doy (the day_of_year          *)
(* coordinate along time), dtype and var (var_name).                       *)
(***************************************************************************)
WindVals == {Fix(0), Fix(1)}

\* One kernel of every length 1..MaxKernel, weights 1, 2, 3, ... (asymmetric,
\* so that the reversal done by a convolution shows).
Kernels == {[j \in 1..n |-> j] : n \in 1..MaxKernel}

UaCubes ==
    UNION {{[vals |-> v, doy |-> d, dtype |-> "float", var |-> "ua"] :
               v \in [1..T -> [1..NLat -> WindVals]], d \in [1..T -> Days]} :
           T \in 1..MaxTime}

\* iris.coord_categorisation.add_season with the default seasons, on a
\* 365-day year: the season of a day of the year.
SeasonOf(d) ==
    IF d <= 59 \/ d >= 335 THEN "djf"
    ELSE IF d <= 151 THEN "mam"
    ELSE IF d <= 243 THEN "jja"
    ELSE "son"

(***************************************************************************)
(* np.convolve(a, v, mode='same').                                         *)
(***************************************************************************)
\* Element x (1-based) of the full convolution, of length M + N - 1.
ConvFullAt(a, v, x) ==
    LET terms == [j \in 1..Len(a) |->
                    IF x - j + 1 >= 1 /\ x - j + 1 <= Len(v)
                    THEN a[j] * v[x - j + 1] ELSE 0]
    IN SeqSum(terms)

ConvolveFull(a, v) == [x \in 1..(Len(a) + Len(v) - 1) |-> ConvFullAt(a, v, x)]

\* mode='same': max(M, N) elements of the full convolution, centred; the
\* window starts (min(M, N) - 1) \div 2 elements in.
ConvolveSame(a, v) ==
    LET M == Len(a)
        N == Len(v)
        short == IF M < N THEN M ELSE N
        long == IF M < N THEN N ELSE M
        start == (short - 1) \div 2
    IN [x \in 1..long |-> ConvFullAt(a, v, x + start)]

\* np.apply_along_axis(lambda m: np.convolve(m, w, mode='same'), time, arr):
\* every latitude column is convolved; the result has as many rows as the
\* convolution returns.
ApplyAlongTime(arr, w) ==
    LET T == Len(arr)
        cols == [j \in 1..NLat |-> ConvolveSame([t \in 1..T |-> arr[t][j]], w)]
    IN [t \in 1..Len(cols[1]) |-> [j \in 1..NLat |-> cols[j][t]]]

(***************************************************************************)
(* Reductions over latitude.                                               *)
(***************************************************************************)
RowMax(row) == CHOOSE m \in {row[j] : j \in 1..Len(row)} :
                   \A j \in 1..Len(row) : row[j] <= m

\* np.argmax: the 0-based index of the first maximum.
ArgMax(row) ==
    (CHOOSE j \in 1..Len(row) :
        /\ row[j] = RowMax(row)
        /\ \A h \in 1..(j - 1) : row[h] < RowMax(row)) - 1

\* The array np.argmax(ua.data, axis=latitude) that becomes the data of the
\* cube named 'latitude': one whole number per time sample.
JetLatitudeData(arr) == [t \in 1..Len(arr) |-> Fix(ArgMax(arr[t]))]

(***************************************************************************)
(* Stores into an array: an integer array truncates toward zero.           *)
(***************************************************************************)
TruncInt(v) ==
    IF v >= 0 THEN (v \div Resolution) * Resolution
    ELSE 0 - (((0 - v) \div Resolution) * Resolution)

Store(dtype, v) == IF dtype = "int" THEN TruncInt(v) ELSE v

(***************************************************************************)
(* Climatology.                                                            *)
(***************************************************************************)
\* data.aggregated_by('day_of_year', MEAN): one entry per distinct day, in
\* order of first appearance; the mean is a float whatever the dtype.
DayMeans(d) ==
    LET days == Distinct(d.doy, {})
    IN [doy |-> days,
        vals |-> [x \in 1..Len(days) |->
                    LET idx == SelectIdx(d.doy, days[x], 1)
                    IN SeqSum([y \in 1..Len(idx) |-> d.vals[idx[y]]]) \div Len(idx)]]

\* np.fft.rfft of n real points returns n \div 2 + 1 coefficients.
rfftLen(n) == (n \div 2) + 1

\* np.fft.irfft of m coefficients, output length left to its default.
irfftLen(m) == 2 * (m - 1)

\* clim_fft[3:np.size(clim_fft)] = 0: the number of coefficients zeroed.
NumZeroed(m) == IF m > 3 THEN m - 3 ELSE 0

\* Length of irfft(rfft(x)) for Len(x) = n.
SmoothLen(n) == irfftLen(rfftLen(n))

\* The values the smoothing can return for x.  When the lengths agree and
\* no coefficient is zeroed the inverse transform returns x.  Otherwise the
\* result is a real vector of the output length that is not computed here:
\* any vector of that length over the values of x.
HarmonicSmooth(x) ==
    IF SmoothLen(Len(x)) = Len(x) /\ NumZeroed(rfftLen(Len(x))) = 0
    THEN {x}
    ELSE [1..SmoothLen(Len(x)) -> {x[y] : y \in 1..Len(x)}]

\* clim.aggregated_by('season', MEAN): one entry per distinct season of the
\* climatology's days, in order of first appearance.
SeasonMeans(c) ==
    LET labels == [x \in 1..Len(c.doy) |-> SeasonOf(c.doy[x])]
        seasons == Distinct(labels, {})
    IN [season |-> seasons,
        vals |-> [x \in 1..Len(seasons) |->
                    LET idx == SelectIdx(labels, seasons[x], 1)
                    IN SeqSum([y \in 1..Len(idx) |-> c.vals[idx[y]]]) \div Len(idx)]]

\* The climatology value of a day of the year.
ClimAt(c, day) == c.vals[CHOOSE x \in 1..Len(c.doy) : c.doy[x] = day]

\* A mutant of WriteThrough: the loop works on a copy of the cube's array.
WriteToCopy(d, new) == d

\* anom = data.data: the local array is the cube's own array, so a store
\* into it is a store into the cube.
WriteThrough(d, new) == [d EXCEPT !.vals = new]

\* One pass of the body of the slices_over('day_of_year') loop (line 83).
SubtractDay(arr, d, day, c) ==
    [t \in 1..Len(arr) |->
        IF d.doy[t] = day THEN Store(d.dtype, arr[t] - c) ELSE arr[t]]

AnomFile(alias, var) == <<alias, var, "anom">>

(***************************************************************************)
(* JetLatitude.compute and JetLatitude._compute_histogram.                 *)
(***************************************************************************)
fftIdle == fn_pc = "idle" /\ fft_in = 0 /\ fft_out = None
histIdle == h_samples = <<>> /\ h_lat = None /\ h_hist = None /\ h_bars = None
petIdle == /\ psl = None /\ rsds = None /\ rsdt = None /\ tas = None
           /\ pet_in = None /\ pet = None /\ pet_pc = "idle"

pipeStart(p) ==
    /\ pc = p
    /\ i = 1
    /\ started = {}
    /\ failed = {}
    /\ failedAt = ""
    /\ lanczos_weight = None
    /\ ua = None
    /\ ua_filtered = None
    /\ wind = None
    /\ latitude = None
    /\ data = None
    /\ entry = None
    /\ clim = None
    /\ k = 0
    /\ anom = None
    /\ anom_cube = None
    /\ season_clim = None
    /\ samples = None
    /\ written = {}

\* The state when compute() is entered.
Init == pipeStart("weights") /\ fftIdle /\ histIdle /\ petIdle

\* A mutant of Raise: the exception is caught in the loop, which goes on to
\* the next alias.
RaiseAndGoOn(stage) ==
    /\ failedAt' = stage
    /\ failed' = failed \cup {i}
    /\ IF i < Len(Aliases)
       THEN pc' = "load" /\ i' = i + 1
       ELSE pc' = "failed" /\ i' = i
    /\ UNCHANGED <<started, written>>

\* A mutant of Raise: the figures of the failing alias are removed.
RaiseAndRollBack(stage) ==
    /\ pc' = "failed"
    /\ failedAt' = stage
    /\ failed' = failed \cup {i}
    /\ written' = {f \in written : f[1] # Aliases[i]}
    /\ UNCHANGED <<i, started>>

\* An exception raised while alias i is processed.  Nothing in compute, in
\* _compute_histogram or in main catches it: it leaves the for loop and
\* compute, and nothing that was written is touched.
Raise(stage) ==
    /\ pc' = "failed"
    /\ failedAt' = stage
    /\ failed' = failed \cup {i}
    /\ UNCHANGED <<i, started, written>>

NoRaise == UNCHANGED <<i, started, failed, failedAt, written>>

histLocals == <<data, entry, clim, k, anom, anom_cube, season_clim, samples>>

\* Line 34: np.load of the kernel.
LoadWeights ==
    /\ pc = "weights"
    /\ \E w \in Kernels : lanczos_weight' = w
    /\ pc' = "load"
    /\ NoRaise
    /\ UNCHANGED <<ua, ua_filtered, wind, latitude, histLocals>>
    /\ UNCHANGED <<fftVars, histVars, petVars>>

\* Line 34: np.load raises (the kernel file is not there).  No alias has
\* been taken up yet.
LoadWeightsFails ==
    /\ pc = "weights"
    /\ pc' = "failed"
    /\ failedAt' = "weights"
    /\ UNCHANGED <<i, started, failed, written, lanczos_weight>>
    /\ UNCHANGED <<ua, ua_filtered, wind, latitude, histLocals>>
    /\ UNCHANGED <<fftVars, histVars, petVars>>

\* Lines 37-39: the next alias; iris.load_cube and add_season.
LoadCube ==
    /\ pc = "load"
    /\ started' = started \cup {i}
    /\ \E c \in UaCubes : ua' = c
    /\ pc' = "filter"
    /\ UNCHANGED <<i, failed, failedAt, written, lanczos_weight>>
    /\ UNCHANGED <<ua_filtered, wind, latitude, histLocals>>
    /\ UNCHANGED <<fftVars, histVars, petVars>>

\* Line 38: iris.load_cube raises (the file is missing or unreadable).
LoadCubeFails ==
    /\ pc = "load"
    /\ started' = started \cup {i}
    /\ pc' = "failed"
    /\ failedAt' = "load"
    /\ failed' = failed \cup {i}
    /\ UNCHANGED <<i, written, lanczos_weight>>
    /\ UNCHANGED <<ua, ua_filtered, wind, latitude, histLocals>>
    /\ UNCHANGED <<fftVars, histVars, petVars>>

\* Lines 41-46: the filter.  ua.copy(ua_filtered) raises when the shape of
\* ua_filtered is not the cube's.
Filter ==
    /\ pc = "filter"
    /\ ua_filtered' = ApplyAlongTime(ua.vals, lanczos_weight)
    /\ IF Len(ua_filtered') = Len(ua.doy)
       THEN /\ ua' = [ua EXCEPT !.vals = ua_filtered']
            /\ pc' = "extract"
            /\ NoRaise
       ELSE /\ Raise("filter")
            /\ UNCHANGED ua
    /\ UNCHANGED <<lanczos_weight, wind, latitude, histLocals>>
    /\ UNCHANGED <<fftVars, histVars, petVars>>

\* Lines 48-64: the two series, and the call _compute_histogram(alias, wind).
Extract ==
    /\ pc = "extract"
    /\ wind' = [vals |-> [t \in 1..Len(ua.vals) |-> RowMax(ua.vals[t])],
                doy |-> ua.doy, dtype |-> "float", var |-> ua.var]
    /\ latitude' = [vals |-> JetLatitudeData(ua.vals),
                    doy |-> ua.doy, dtype |-> "int", var |-> "lat"]
    /\ ua' = None
    /\ ua_filtered' = None
    /\ data' = wind'
    /\ entry' = wind'.vals
    /\ pc' = "clim"
    /\ NoRaise
    /\ UNCHANGED <<lanczos_weight, clim, k, anom, anom_cube, season_clim, samples>>
    /\ UNCHANGED <<fftVars, histVars, petVars>>

\* Lines 68-80: the smoothed day-of-year climatology.  np.fft.irfft raises
\* when asked for no points, clim.copy(clim_fft) when clim_fft has not the
\* climatology's length.
ComputeClim ==
    /\ pc = "clim"
    /\ LET means == DayMeans(data)
       IN IF SmoothLen(Len(means.vals)) # Len(means.vals)
          THEN /\ Raise("smooth")
               /\ UNCHANGED <<clim, k, anom>>
          ELSE /\ \E sm \in HarmonicSmooth(means.vals) :
                      clim' = [means EXCEPT !.vals = sm]
               /\ anom' = data.vals
               /\ k' = 1
               /\ pc' = "anom_loop"
               /\ NoRaise
    /\ UNCHANGED <<lanczos_weight, ua, ua_filtered, wind, latitude>>
    /\ UNCHANGED <<data, entry, anom_cube, season_clim, samples>>
    /\ UNCHANGED <<fftVars, histVars, petVars>>

\* Lines 81-83: one iteration of the loop over the climatology's days.
AnomStep ==
    /\ pc = "anom_loop"
    /\ anom' = SubtractDay(anom, data, clim.doy[k], clim.vals[k])
    /\ data' = WriteThrough(data, anom')
    /\ k' = k + 1
    /\ pc' = IF k = Len(clim.doy) THEN "plot_anom" ELSE "anom_loop"
    /\ NoRaise
    /\ UNCHANGED <<lanczos_weight, ua, ua_filtered, wind, latitude>>
    /\ UNCHANGED <<entry, clim, anom_cube, season_clim, samples>>
    /\ UNCHANGED <<fftVars, histVars, petVars>>

\* Lines 84-90: the anomaly cube and its figure.
PlotAnom ==
    /\ pc = "plot_anom"
    /\ anom_cube' = [data EXCEPT !.vals = anom]
    /\ written' = written \cup {AnomFile(Aliases[i], data.var)}
    /\ pc' = "season_clim"
    /\ UNCHANGED <<i, started, failed, failedAt>>
    /\ UNCHANGED <<lanczos_weight, ua, ua_filtered, wind, latitude>>
    /\ UNCHANGED <<data, entry, clim, k, anom, season_clim, samples>>
    /\ UNCHANGED <<fftVars, histVars, petVars>>

\* Line 86: plt.savefig raises (the plot directory cannot be written).
PlotAnomFails ==
    /\ pc = "plot_anom"
    /\ anom_cube' = [data EXCEPT !.vals = anom]
    /\ Raise("savefig")
    /\ UNCHANGED <<lanczos_weight, ua, ua_filtered, wind, latitude>>
    /\ UNCHANGED <<data, entry, clim, k, anom, season_clim, samples>>
    /\ UNCHANGED <<fftVars, histVars, petVars>>

\* Lines 91-93: the seasonal climatology.
SeasonClim ==
    /\ pc = "season_clim"
    /\ season_clim' = SeasonMeans(clim)
    /\ pc' = "season_loop"
    /\ NoRaise
    /\ UNCHANGED <<lanczos_weight, ua, ua_filtered, wind, latitude>>
    /\ UNCHANGED <<data, entry, clim, k, anom, anom_cube, samples>>
    /\ UNCHANGED <<fftVars, histVars, petVars>>

\* The samples handed to np.histogram and to stats.gaussian_kde for the
\* season at position x of the seasonal climatology (lines 94, 98, 99):
\* season_slice, the one entry of season_clim for that season.
SeasonSamples(sc, x) == <<sc.vals[x]>>

\* Lines 94-104 and 107-108: the first iteration of the loop over the
\* seasons.  Whatever the earlier lines of the iteration do, line 108
\* applies .coord to `season`, which is the label (a string) read on line
\* 107, and raises: no iteration of the loop completes.
SeasonStep ==
    /\ pc = "season_loop"
    /\ samples' = SeasonSamples(season_clim, 1)
    /\ Raise("season")
    /\ UNCHANGED <<lanczos_weight, ua, ua_filtered, wind, latitude>>
    /\ UNCHANGED <<data, entry, clim, k, anom, anom_cube, season_clim>>
    /\ UNCHANGED <<fftVars, histVars, petVars>>

HistogramNext ==
    \/ ComputeClim
    \/ AnomStep
    \/ PlotAnom
    \/ PlotAnomFails
    \/ SeasonClim
    \/ SeasonStep

Next ==
    \/ LoadWeights
    \/ LoadWeightsFails
    \/ LoadCube
    \/ LoadCubeFails
    \/ Filter
    \/ Extract
    \/ HistogramNext

Spec == Init /\ [][Next]_vars

(***************************************************************************)
(* _compute_histogram on each of the two series compute builds for it      *)
(* (lines 64 and 65): a float series of maxima, var_name of the input, and *)
(* the integer series of np.argmax, var_name 'lat'.                        *)
(***************************************************************************)
HistCubes ==
    UNION {{[vals |-> v, doy |-> d, dtype |-> "float", var |-> "ua"] :
               v \in [1..T -> 0..Fix(1)], d \in [1..T -> Days]}
           \cup
           {[vals |-> v, doy |-> d, dtype |-> "int", var |-> "lat"] :
               v \in [1..T -> {Fix(j - 1) : j \in 1..NLat}], d \in [1..T -> Days]} :
           T \in 1..MaxTime}

InitHistogram ==
    /\ pc = "clim"
    /\ i = 1
    /\ started = {1}
    /\ failed = {}
    /\ failedAt = ""
    /\ lanczos_weight = None
    /\ ua = None
    /\ ua_filtered = None
    /\ wind = None
    /\ latitude = None
    /\ data \in HistCubes
    /\ entry = data.vals
    /\ clim = None
    /\ k = 0
    /\ anom = None
    /\ anom_cube = None
    /\ season_clim = None
    /\ samples = None
    /\ written = {}
    /\ fftIdle /\ histIdle /\ petIdle

SpecHistogram == InitHistogram /\ [][HistogramNext]_vars

(***************************************************************************)
(* The harmonic smoothing of lines 74-76 applied to a climatology of every *)
(* length up to MaxDays.                                                   *)
(***************************************************************************)
InitSmooth ==
    /\ pipeStart("idle") /\ histIdle /\ petIdle
    /\ fn_pc = "rfft"
    /\ fft_in \in 1..MaxDays
    /\ fft_out = None

ApplySmooth ==
    /\ fn_pc = "rfft"
    /\ fft_out' = SmoothLen(fft_in)
    /\ fn_pc' = "done"
    /\ UNCHANGED <<fft_in, pipeVars, histVars, petVars>>

SpecSmooth == InitSmooth /\ [][ApplySmooth]_vars

(***************************************************************************)
(* The histogram of line 98 and the bar heights of lines 111-116, applied  *)
(* to a sample set.  Latitudes count quarter degrees.                      *)
(***************************************************************************)
BinWidth == 10      \* 2.5 degrees
HalfBin == 5        \* 1.25 degrees

\* Ranges of the latitude coordinate the bins are built from.
LatRanges == {[lo |-> 160, hi |-> 200], [lo |-> 120, hi |-> 240]}

\* Latitudes of the samples binned: all lie on the narrower range.
SampleVals == {160, 163, 170, 200}

\* np.arange(lo, hi, 2.5) - 1.25: lo - 1.25 + 2.5 j for every j >= 0 with
\* lo + 2.5 j < hi.
BinEdges(r) ==
    LET n == ((r.hi - r.lo) + BinWidth - 1) \div BinWidth
    IN [j \in 1..n |-> r.lo + (j - 1) * BinWidth - HalfBin]

\* np.histogram(a, bins=edges): bin b holds the a with
\* edges[b] <= a < edges[b+1], the last bin its right edge too; values
\* outside the edges are not counted.
Histogram(a, edges) ==
    [b \in 1..(Len(edges) - 1) |->
        Cardinality({t \in 1..Len(a) :
            /\ edges[b] <= a[t]
            /\ \/ a[t] < edges[b + 1]
               \/ b = Len(edges) - 1 /\ a[t] = edges[b + 1]})]

\* histogram / 2.5 * histogram.sum() (line 113), a rational per bin: the
\* division is done first, then the product.
BarHeights(hist) ==
    [b \in 1..Len(hist) |-> [num |-> hist[b] * SeqSum(hist), den |-> BinWidth]]

InitDensity ==
    /\ pipeStart("idle") /\ petIdle
    /\ fn_pc = "histogram" /\ fft_in = 0 /\ fft_out = None
    /\ h_samples \in UNION {[1..n -> SampleVals] : n \in 1..MaxSamples}
    /\ h_lat \in LatRanges
    /\ h_hist = None
    /\ h_bars = None

ApplyHistogram ==
    /\ fn_pc = "histogram"
    /\ h_hist' = Histogram(h_samples, BinEdges(h_lat))
    /\ fn_pc' = "bar"
    /\ UNCHANGED <<h_samples, h_lat, h_bars, fft_in, fft_out, pipeVars, petVars>>

ApplyBars ==
    /\ fn_pc = "bar"
    /\ h_bars' = BarHeights(h_hist)
    /\ fn_pc' = "done"
    /\ UNCHANGED <<h_samples, h_lat, h_hist, fft_in, fft_out, pipeVars, petVars>>

DensityNext == ApplyHistogram \/ ApplyBars

SpecDensity == InitDensity /\ [][DensityNext]_vars

(***************************************************************************)
(* debruin_pet.  A field is a record of its units and one value, counted   *)
(* in hundredths of the unit.                                              *)
(***************************************************************************)
\* A mutant of ConvertUnits: the units are renamed, the values kept.
RelabelUnits(c, unit) == [c EXCEPT !.units = unit]

\* cube.convert_units(unit): the cube itself is changed.
ConvertUnits(c, unit) ==
    IF c.units = unit THEN c
    ELSE IF c.units = "K" /\ unit = "degC"
         THEN [units |-> unit, val |-> c.val - 27315]
    ELSE IF c.units = "Pa" /\ unit = "hPa"
         THEN [units |-> unit, val |-> c.val \div 100]
    ELSE c

TasFields == {[units |-> "K", val |-> v] : v \in {27315, 29315, 30000}}
                 \cup {[units |-> "degC", val |-> v] : v \in {0, 2000, 2685}}
PslFields == {[units |-> "Pa", val |-> v] : v \in {10000000, 10132500, 9500000}}
                 \cup {[units |-> "hPa", val |-> v] : v \in {100000, 101325, 95000}}
RadFields == {[units |-> "W m-2", val |-> v] : v \in {20000, 40000}}

InitPet ==
    /\ pipeStart("idle") /\ fftIdle /\ histIdle
    /\ psl \in PslFields
    /\ rsds \in RadFields
    /\ rsdt \in RadFields
    /\ tas \in TasFields
    /\ pet_in = [psl |-> psl, rsds |-> rsds, rsdt |-> rsdt, tas |-> tas]
    /\ pet = None
    /\ pet_pc = "tetens"

\* Line 99: tetens_derivative(tas).
TetensDerivative ==
    /\ pet_pc = "tetens"
    /\ tas' = ConvertUnits(tas, "degC")
    /\ pet_pc' = "constants"
    /\ UNCHANGED <<psl, rsds, rsdt, pet_in, pet, pipeVars, fftVars, histVars>>

\* Line 100: get_constants(psl).
GetConstants ==
    /\ pet_pc = "constants"
    /\ psl' = ConvertUnits(psl, "hPa")
    /\ pet_pc' = "equation"
    /\ UNCHANGED <<tas, rsds, rsdt, pet_in, pet, pipeVars, fftVars, histVars>>

\* Lines 103-115: equation 6 builds new cubes from its operands; the value
\* of the result (it needs exp) is not computed here.
Equation ==
    /\ pet_pc = "equation"
    /\ pet' = [var |-> "evspsblpot", dtype |-> "float32"]
    /\ pet_pc' = "done"
    /\ UNCHANGED <<psl, rsds, rsdt, tas, pet_in, pipeVars, fftVars, histVars>>

PetNext == TetensDerivative \/ GetConstants \/ Equation

SpecPet == InitPet /\ [][PetNext]_vars

(***************************************************************************)
(* The claims.                                                             *)
(***************************************************************************)

\* C1 (as claimed): when compute builds the 'latitude' series, the value
\* stored for every time sample is the latitude coordinate (LatPoints) at
\* which the filtered wind of that sample is largest, not the position of
\* that maximum.
C1Orig ==
    [][pc = "extract" /\ pc' = "clim" =>
          \A t \in 1..Len(ua.vals) :
              latitude'.vals[t] = Fix(LatPoints[ArgMax(ua.vals[t]) + 1])]_vars

\* C2 (as claimed): once compute has ended with the processing of one alias
\* failed, every other alias of the batch has been taken up by the loop.
C2Orig ==
    pc = "failed" /\ failed # {} =>
        \A j \in 1..Len(Aliases) : j \notin failed => j \in started

\* C2 (amended): a failure while alias i is processed ends compute; no
\* alias later in the iteration order is ever taken up.
C2Amended ==
    \A f \in failed :
        /\ pc = "failed"
        /\ \A j \in started : j <= f

C2Witness ==
    /\ pc = "failed"
    /\ failedAt = "season"
    /\ failed = {1}
    /\ started = {1}

\* C3 (as claimed): no figure has been written for an alias whose
\* processing has failed.
C3Orig ==
    \A f \in written : \A a \in failed : f[1] # Aliases[a]

\* C3 (amended): a failure ends compute; the failure of the seasonal stage
\* leaves the anomaly figure written before it on disk, and a failure of an
\* earlier stage leaves no figure.
C3Amended ==
    \A a \in failed :
        /\ pc = "failed"
        /\ failedAt = "season" => written = {AnomFile(Aliases[a], data.var)}
        /\ failedAt # "season" => written = {}

C3Witness ==
    /\ pc = "failed"
    /\ failedAt = "season"
    /\ written = {AnomFile("a1", "ua")}

\* The filter has run and its result is still held.
Filtered == pc = "extract" \/ (pc = "failed" /\ failedAt = "filter")

\* C8 (as claimed): the filtered array has the time length of the input,
\* whatever the length of the kernel.
C8Orig ==
    Filtered => Len(ua_filtered) = Len(ua.doy)

\* C8 (amended): with a kernel no longer than the time axis the filtered
\* array has the time length of the input; with a longer kernel it has the
\* kernel's length and the filter step fails.
C8Amended ==
    Filtered =>
        IF Len(lanczos_weight) <= Len(ua.doy)
        THEN Len(ua_filtered) = Len(ua.doy) /\ pc = "extract"
        ELSE Len(ua_filtered) = Len(lanczos_weight) /\ pc = "failed"

C8Witness ==
    /\ pc = "failed"
    /\ failedAt = "filter"
    /\ Len(lanczos_weight) = 3
    /\ Len(ua.doy) = 2
    /\ Len(ua_filtered) = 3

\* The day-of-year loop of _compute_histogram has run.
LoopDone == pc \in {"plot_anom", "season_clim", "season_loop"}
                \/ (pc = "failed" /\ failedAt \in {"savefig", "season"})

\* C4 (as claimed): the smoothed climatology has the length of the
\* climatology it was computed from.
C4Orig ==
    fn_pc = "done" /\ fft_in > 0 => fft_out = fft_in

\* C5 (as claimed): after the day-of-year loop the anomaly has the length
\* of the input and every sample is the input's sample less the
\* climatology of its day.
C5Orig ==
    LoopDone =>
        /\ Len(anom) = Len(entry)
        /\ \A t \in 1..Len(entry) :
               anom[t] = entry[t] - ClimAt(clim, data.doy[t])

\* C6 (as claimed): when the 'anom' figure is plotted, and afterwards, the
\* input series holds the values it held on entry.
C6Orig ==
    LoopDone => data.vals = entry

\* The anomaly cube of line 84 exists.
AnomCopied == pc \in {"season_clim", "season_loop"}
                  \/ (pc = "failed" /\ failedAt \in {"savefig", "season"})

\* C6 (amended): the loop works on the input's own array: once the anomaly
\* cube is made the input holds the values of the anomaly cube, which are
\* the differences the loop stored.
C6Amended ==
    AnomCopied =>
        /\ data.vals = anom_cube.vals
        /\ \A t \in 1..Len(entry) :
               data.vals[t] =
                   Store(data.dtype, entry[t] - ClimAt(clim, data.doy[t]))

C6Witness ==
    /\ pc = "season_clim"
    /\ data.vals # entry
    /\ data.vals = anom_cube.vals

\* The residuals of the samples of the season at position x of sc: every
\* anomaly sample of that season less the season's climatology.
SeasonResiduals(cube, sc, x) ==
    LET labels == [t \in 1..Len(cube.doy) |-> SeasonOf(cube.doy[t])]
        idx == SelectIdx(labels, sc.season[x], 1)
    IN [y \in 1..Len(idx) |-> cube.vals[idx[y]] - sc.vals[x]]

\* C9 (as claimed): the samples handed to the histogram and to the density
\* estimate for a season are the residuals of that season's time samples.
C9Orig ==
    pc = "failed" /\ failedAt = "season" =>
        samples = SeasonResiduals(anom_cube, season_clim, 1)

\* C10 (as claimed): the bar heights, each times the bin width, sum to 1.
C10Orig ==
    fn_pc = "done" /\ Len(h_samples) > 0 =>
        SeqSum([b \in 1..Len(h_bars) |-> h_bars[b].num * BinWidth])
            = h_bars[1].den

\* C7 (as claimed): when debruin_pet returns, the four input fields are as
\* they were on entry.
C7Orig ==
    pet_pc = "done" =>
        [psl |-> psl, rsds |-> rsds, rsdt |-> rsdt, tas |-> tas] = pet_in

\* C7 (amended): rsds and rsdt are as on entry; tas is left in degC and psl
\* in hPa, with their values converted, so each is as on entry only when it
\* came in that unit.
C7Amended ==
    pet_pc = "done" =>
        /\ rsds = pet_in.rsds
        /\ rsdt = pet_in.rsdt
        /\ tas.units = "degC"
        /\ psl.units = "hPa"
        /\ tas.val = IF pet_in.tas.units = "K"
                     THEN pet_in.tas.val - 27315 ELSE pet_in.tas.val
        /\ psl.val = IF pet_in.psl.units = "Pa"
                     THEN pet_in.psl.val \div 100 ELSE pet_in.psl.val

C7Witness ==
    /\ pet_pc = "done"
    /\ pet_in.tas.units = "K"
    /\ pet_in.psl.units = "Pa"
    /\ tas # pet_in.tas
    /\ psl # pet_in.psl

====
